---- MODULE Spec2Model ----
(***************************************************************************)
(* Model of the qualitative coding store of the viewer                     *)
(* (packages/viewer/src/qualitative/store.ts): the entity registries, the  *)
(* Assignment Table, the Audit Log, the four derived stores and the        *)
(* Mutation API.                                                           *)
(*                                                                         *)
(* Representation.                                                         *)
(*  - An optional value (a field that may be undefined) is a sequence of   *)
(*    length 0 (absent) or 1 (present).                                    *)
(*  - A RowID is <<kind, n>>: the number n (<<"number", n>>) or the string *)
(*    made of the decimal digits of n (<<"string", n>>).  The two are      *)
(*    different values for a JavaScript Set and have the same String().    *)
(*  - An id made by createId is <<prefix, uuid>>, standing for the string  *)
(*    prefix-uuid.                                                         *)
(*  - The Assignment Table is a JavaScript object: its keys iterate in     *)
(*    insertion order, except that integer-like keys come first, in        *)
(*    ascending order.  It is the sequence of its entries [codeId, rows]   *)
(*    in iteration order.  assignmentsByRow and the cooccurrence matrix    *)
(*    are functions from their own keys.                                   *)
(*  - A svelte store delivers a new value to its subscribers               *)
(*    synchronously, inside set/update.  The variable notified holds, for  *)
(*    the most recent Mutation API call, one snapshot per write the call   *)
(*    made: what the subscribers were handed at that moment.               *)
(*  - A text (the exported document, and a string where the characters     *)
(*    matter) is the sequence of its lexical units: each of the reserved   *)
(*    characters & < > " ' is a unit, and so is a run of other characters. *)
(*    Concatenating strings is concatenating the sequences.                *)
(***************************************************************************)
EXTENDS Integers, Sequences, FiniteSets

\* ------------------------------------------------------------------ bounds
MaxCodes == 2

MaxEvents == 3

MaxEntities == 1

MaxMemos == 2

MaxUuids == 2

\* ------------------------------------------------------- program constants
RecentWindow == 50

SaturationThreshold == 2

DefaultLevel == 1

\* ------------------------------------------------------------ JS helpers
None == <<>>

Some(v) == <<v>>

OrElse(opt, default) == IF opt = None THEN default ELSE opt[1]

Elems(seq) == {seq[i] : i \in DOMAIN seq}

EmptyObject == [k \in {} |-> 0]

HasKey(obj, k) == k \in DOMAIN obj

Put(obj, k, v) == [x \in (DOMAIN obj) \cup {k} |-> IF x = k THEN v ELSE obj[x]]

Num(n) == <<"number", n>>

Str(n) == <<"string", n>>

\* The decimal numerals of the numbers that occur as row ids, uuids and levels.
Numeral == [n \in 0..3 |-> IF n = 0 THEN "0" ELSE IF n = 1 THEN "1" ELSE IF n = 2 THEN "2" ELSE "3"]

String(rowId) == Numeral[rowId[2]]

KeyIndex(key) == CHOOSE n \in DOMAIN Numeral : Numeral[n] = key

\* Object.keys of an object whose keys are integer-like: ascending order.
RECURSIVE OwnKeys(_)
OwnKeys(obj) ==
  IF DOMAIN obj = {} THEN <<>>
  ELSE LET first == CHOOSE k \in DOMAIN obj :
                      \A other \in DOMAIN obj : KeyIndex(k) <= KeyIndex(other)
       IN  <<first>> \o OwnKeys([k \in (DOMAIN obj) \ {first} |-> obj[k]])

\* new Set(array) followed by Array.from: first occurrences, in order.
RECURSIVE SetOf(_)
SetOf(array) ==
  IF array = <<>> THEN <<>>
  ELSE LET front == SetOf(SubSeq(array, 1, Len(array) - 1))
           last == array[Len(array)]
       IN  IF last \in Elems(front) THEN front ELSE Append(front, last)

SetAddAllConcat(existing, rowIds) == existing \o rowIds

SetAddAll(existing, rowIds) == SetOf(existing \o rowIds)

SetDeleteAllKept(existing, rowIds) == existing

SetDeleteAllFirstOnly(existing, rowIds) ==
  SelectSeq(existing, LAMBDA r : rowIds # <<>> /\ r # rowIds[1])

SetDeleteAll(existing, rowIds) ==
  SelectSeq(existing, LAMBDA r : r \notin Elems(rowIds))

\* ------------------------------------------------ the Assignment Table
HasEntry(current, codeId) == \E i \in DOMAIN current : current[i].codeId = codeId

EntryIndex(current, codeId) == CHOOSE i \in DOMAIN current : current[i].codeId = codeId

\* current[codeId] ?? []
RowsOf(current, codeId) ==
  IF HasEntry(current, codeId) THEN current[EntryIndex(current, codeId)].rows ELSE <<>>

\* A code id that is an integer-like string: the decimal numeral of n.
Digits(n) == <<"digits", n>>

IsIntegerLike(codeId) == codeId[1] = "digits"

WithEntryMovedLast(current, codeId, rows) ==
  Append(SelectSeq(current, LAMBDA e : e.codeId # codeId), [codeId |-> codeId, rows |-> rows])

\* { ...current, [codeId]: rows }: an own key keeps its place; a new key
\* goes last, unless it is integer-like: integer-like keys iterate first, in
\* ascending numeric order.
WithEntry(current, codeId, rows) ==
  IF HasEntry(current, codeId)
  THEN [current EXCEPT ![EntryIndex(current, codeId)].rows = rows]
  ELSE IF IsIntegerLike(codeId)
  THEN LET before == SelectSeq(current, LAMBDA e : IsIntegerLike(e.codeId)
                                                    /\ e.codeId[2] < codeId[2])
           after == SubSeq(current, Len(before) + 1, Len(current))
       IN  Append(before, [codeId |-> codeId, rows |-> rows]) \o after
  ELSE Append(current, [codeId |-> codeId, rows |-> rows])

\* --------------------------------------------------------- identities
createId(prefix, uuid) == <<prefix, uuid>>

GhostCode == createId("code", 0)

Palette ==
  <<"#2563eb", "#16a34a", "#f97316", "#ef4444", "#8b5cf6", "#14b8a6", "#facc15", "#ec4899">>

toColorShifted(index) == Palette[((index + 1) % Len(Palette)) + 1]

toColor(index) == Palette[(index % Len(Palette)) + 1]

\* ------------------------------------------------------ derived stores
RECURSIVE ByRowLoop(_, _, _, _)
ByRowLoop(result, entries, e, r) ==
  IF e > Len(entries) THEN result
  ELSE IF r > Len(entries[e].rows) THEN ByRowLoop(result, entries, e + 1, 1)
  ELSE LET key == String(entries[e].rows[r])
           codeId == entries[e].codeId
           list == IF HasKey(result, key) THEN result[key] ELSE <<>>
           pushed == IF codeId \in Elems(list) THEN list ELSE Append(list, codeId)
       IN  ByRowLoop(Put(result, key, pushed), entries, e, r + 1)

AssignmentsByRowOf(assignmentTable) == ByRowLoop(EmptyObject, assignmentTable, 1, 1)

CodesWithFrequencyStored(codeList, assignmentTable) == codeList

CodesWithFrequencyOf(codeList, assignmentTable) ==
  [i \in DOMAIN codeList |->
     [codeList[i] EXCEPT !.frequency = Len(RowsOf(assignmentTable, codeList[i].id))]]

Increment(matrix, a, b) ==
  LET row == IF HasKey(matrix, a) THEN matrix[a] ELSE EmptyObject
      count == IF HasKey(row, b) THEN row[b] ELSE 0
  IN  Put(matrix, a, Put(row, b, count + 1))

RECURSIVE PairLoopOneWay(_, _, _, _)
PairLoopOneWay(matrix, codesForRow, i, j) ==
  IF i > Len(codesForRow) THEN matrix
  ELSE IF j > Len(codesForRow) THEN PairLoopOneWay(matrix, codesForRow, i + 1, i + 2)
  ELSE PairLoopOneWay(Increment(matrix, codesForRow[i], codesForRow[j]),
                      codesForRow, i, j + 1)

RECURSIVE PairLoop(_, _, _, _)
PairLoop(matrix, codesForRow, i, j) ==
  IF i > Len(codesForRow) THEN matrix
  ELSE IF j > Len(codesForRow) THEN PairLoop(matrix, codesForRow, i + 1, i + 2)
  ELSE PairLoop(Increment(Increment(matrix, codesForRow[i], codesForRow[j]),
                          codesForRow[j], codesForRow[i]),
                codesForRow, i, j + 1)

RECURSIVE RowLoop(_, _, _, _)
RowLoop(matrix, byRow, keys, k) ==
  IF k > Len(keys) THEN matrix
  ELSE RowLoop(PairLoop(matrix, byRow[keys[k]], 1, 2), byRow, keys, k + 1)

CooccurrenceOf(byRow) == RowLoop(EmptyObject, byRow, OwnKeys(byRow), 1)

SliceLast(events, n) ==
  IF Len(events) <= n THEN events ELSE SubSeq(events, Len(events) - n + 1, Len(events))

SaturationOfStrict(codeList, events) ==
  LET recentEvents == SliceLast(events, RecentWindow)
      recentNewCodes == Len(SelectSeq(recentEvents, LAMBDA e : e.action = "create"))
  IN  [totalCodes |-> Len(codeList),
       recentNewCodes |-> recentNewCodes,
       trend |-> IF recentNewCodes < SaturationThreshold
                 THEN "Approaching saturation" ELSE "Exploring"]

SaturationOf(codeList, events) ==
  LET recentEvents == SliceLast(events, RecentWindow)
      recentNewCodes == Len(SelectSeq(recentEvents, LAMBDA e : e.action = "create"))
  IN  [totalCodes |-> Len(codeList),
       recentNewCodes |-> recentNewCodes,
       trend |-> IF recentNewCodes <= SaturationThreshold
                 THEN "Approaching saturation" ELSE "Exploring"]

\* ------------------------------------------------- interchange exporter
\* A code name that holds markup.
MarkupName == "x\"></Code><Coding codeId=\"c\" dataPointId=\"1\"></Coding><Code id=\"y"

\* The lexical units of a string of the program.
Units(s) ==
  IF s = "" THEN <<>>
  ELSE IF s = MarkupName
  THEN <<"x", "\"", ">", "<", "/Code", ">",
         "<", "Coding codeId=", "\"", "c", "\"", " dataPointId=", "\"", "1", "\"", ">",
         "<", "/Coding", ">",
         "<", "Code id=", "\"", "y">>
  ELSE <<s>>

Decimal(n) == IF n = 0 THEN "0" ELSE Numeral[n]

\* `${prefix}-${id}` of createId, as text.
IdText(id) == <<id[1], "-", Decimal(id[2])>>

\* createdAt.toISOString(): digits, "-", ":", ".", "T" and "Z" only.
toISOString(createdAt) == <<"T", Decimal(createdAt)>>

RECURSIVE Join(_)
Join(texts) == IF texts = <<>> THEN <<>> ELSE Head(texts) \o Join(Tail(texts))

CodeXml(code) ==
  <<"<", "Code id=", "\"">> \o IdText(code.id)
    \o <<"\"", " name=", "\"">> \o Units(code.name)
    \o <<"\"", " color=", "\"">> \o Units(code.color)
    \o <<"\"", " level=", "\"", Decimal(code.level)>>
    \o <<"\"", " parentId=", "\"">>
    \o (IF code.parentId = None THEN Units("") ELSE IdText(code.parentId[1]))
    \o <<"\"", ">", "<", "/Code", ">">>

MemoXml(memo) ==
  <<"<", "Memo id=", "\"">> \o IdText(memo.id)
    \o <<"\"", " type=", "\"">> \o Units(memo.memoType)
    \o <<"\"", " createdAt=", "\"">> \o toISOString(memo.createdAt)
    \o <<"\"", ">", "<", "Content", ">">> \o Units(memo.content)
    \o <<"<", "/Content", ">", "<", "/Memo", ">">>

CodingXml(codeId, rowId) ==
  <<"<", "Coding codeId=", "\"">> \o IdText(codeId)
    \o <<"\"", " dataPointId=", "\"", String(rowId)>>
    \o <<"\"", ">", "<", "/Coding", ">">>

\* Object.entries($assignments).flatMap(...).join("")
CodingXmlOf(table) ==
  Join([e \in DOMAIN table |->
          Join([r \in DOMAIN table[e].rows |-> CodingXml(table[e].codeId, table[e].rows[r])])])

ExportOfBare(codeList, memoList, table) ==
  <<"<", "Project", ">">>
    \o Join([i \in DOMAIN codeList |-> CodeXml(codeList[i])])
    \o Join([i \in DOMAIN memoList |-> MemoXml(memoList[i])])
    \o CodingXmlOf(table)
    \o <<"<", "/Project", ">">>

ExportOf(codeList, memoList, table) ==
  <<"<", "?xml version=", "\"", "1.0", "\"", " encoding=", "\"", "UTF-8", "\"", "?", ">">>
    \o <<"<", "Project", ">">>
    \o Join([i \in DOMAIN codeList |-> CodeXml(codeList[i])])
    \o Join([i \in DOMAIN memoList |-> MemoXml(memoList[i])])
    \o CodingXmlOf(table)
    \o <<"<", "/Project", ">">>

\* ------------------------------------------------------------- the panel
\* flatCodes(codes, parentId, depth) of the panel.  The recursion follows
\* the ids of the codes it lists; once it is deeper than the registry is
\* long it has come back to a code it is already listing and never returns
\* (overflow).
RECURSIVE flatCodesFrom(_, _, _)
flatCodesFrom(codeList, parentId, depth) ==
  IF depth > Len(codeList) THEN [overflow |-> TRUE, items |-> <<>>]
  ELSE LET children == SelectSeq(codeList, LAMBDA code : code.parentId = parentId)
           below == [k \in DOMAIN children |->
                       flatCodesFrom(codeList, Some(children[k].id), depth + 1)]
       IN  [overflow |-> \E k \in DOMAIN children : below[k].overflow,
            items |-> Join([k \in DOMAIN children |->
                              <<[code |-> children[k], depth |-> depth]>> \o below[k].items])]

flatCodes(codeList) == flatCodesFrom(codeList, None, 0)

\* --------------------------------------------------------------- state
VARIABLES
  codes,               \* writable<Code[]>
  memos,               \* writable<Memo[]>
  relations,           \* writable<CodeRelation[]>
  actors,              \* writable<Actor[]>
  actorLinks,          \* writable<ActorLink[]>
  assignments,         \* writable<Record<string, RowID[]>>
  codingEvents,        \* writable<CodingEvent[]>
  assignmentsByRow,    \* derived(assignments)
  codesWithFrequency,  \* derived([codes, assignments])
  cooccurrence,        \* derived(assignmentsByRow)
  saturation,          \* derived([codes, codingEvents])
  uuidCount,           \* number of ids createId has made
  notified,            \* what the subscribers were handed during the last call
  lastCall,            \* the last Mutation API call and its arguments
  exported,            \* the text the last call returned, if it was exportRefiQda
  selectedRows,        \* writable<any[] | null>: the rows selected in the chart
  selectedCode,        \* the code chosen in the selection bar, or null
  roundTrip,           \* the caller's apply-then-remove in progress, if any
  open,                \* the point-details modal: its open prop
  rowId,               \* its rowId prop, or null
  rowData,             \* the row it has loaded, or null
  loading,             \* whether it shows "Loading details..."
  queries              \* the row queries it has issued, in the order of issue

registries == <<memos, relations, actors, actorLinks>>

coding == <<codes, assignments, codingEvents>>

derivedStores == <<assignmentsByRow, codesWithFrequency, cooccurrence, saturation>>

vars == <<codes, memos, relations, actors, actorLinks, assignments, codingEvents,
          assignmentsByRow, codesWithFrequency, cooccurrence, saturation,
          uuidCount, notified, lastCall, exported, selectedRows, selectedCode,
          roundTrip, open, rowId, rowData, loading, queries>>

\* The state of the user interface around the store.
ui == <<selectedRows, selectedCode>>

\* The state of the point-details modal.
modal == <<open, rowId, rowData, loading, queries>>

\* The values the stores hold at this moment.
Current ==
  [codes |-> codes, assignments |-> assignments, codingEvents |-> codingEvents,
   assignmentsByRow |-> assignmentsByRow, codesWithFrequency |-> codesWithFrequency,
   cooccurrence |-> cooccurrence, saturation |-> saturation]

\* codes.update: codesWithFrequency and saturation depend on codes.
UpdateCodes(st, list) ==
  [st EXCEPT !.codes = list,
             !.codesWithFrequency = CodesWithFrequencyOf(list, st.assignments),
             !.saturation = SaturationOf(list, st.codingEvents)]

UpdateAssignmentsShallow(st, table) ==
  [st EXCEPT !.assignments = table,
             !.assignmentsByRow = AssignmentsByRowOf(table),
             !.codesWithFrequency = CodesWithFrequencyOf(st.codes, table)]

\* assignments.update: assignmentsByRow and codesWithFrequency depend on
\* assignments, cooccurrence on assignmentsByRow.
UpdateAssignments(st, table) ==
  LET byRow == AssignmentsByRowOf(table)
  IN  [st EXCEPT !.assignments = table,
                 !.assignmentsByRow = byRow,
                 !.codesWithFrequency = CodesWithFrequencyOf(st.codes, table),
                 !.cooccurrence = CooccurrenceOf(byRow)]

\* codingEvents.update: saturation depends on codingEvents.
UpdateCodingEvents(st, events) ==
  [st EXCEPT !.codingEvents = events,
             !.saturation = SaturationOf(st.codes, events)]

logEventPrepend(st, event) == UpdateCodingEvents(st, <<event>> \o st.codingEvents)

logEvent(st, event) == UpdateCodingEvents(st, Append(st.codingEvents, event))

\* What the subscribers of the stores see when the write to `store` is
\* delivered: the stores as they are at that moment.
Delivery(store, st) ==
  [store |-> store,
   codes |-> st.codes, assignments |-> st.assignments, codingEvents |-> st.codingEvents,
   assignmentsByRow |-> st.assignmentsByRow, codesWithFrequency |-> st.codesWithFrequency,
   cooccurrence |-> st.cooccurrence, saturation |-> st.saturation]

Commit(st) ==
  /\ codes' = st.codes
  /\ assignments' = st.assignments
  /\ codingEvents' = st.codingEvents
  /\ assignmentsByRow' = st.assignmentsByRow
  /\ codesWithFrequency' = st.codesWithFrequency
  /\ cooccurrence' = st.cooccurrence
  /\ saturation' = st.saturation

NoPartial == [name |-> None, color |-> None, level |-> None, parentId |-> None]

Call(op, codeId, rowIds, partial) ==
  [op |-> op, codeId |-> codeId, rowIds |-> rowIds, partial |-> partial]

Init ==
  /\ codes = <<>>
  /\ memos = <<>>
  /\ relations = <<>>
  /\ actors = <<>>
  /\ actorLinks = <<>>
  /\ assignments = <<>>
  /\ codingEvents = <<>>
  /\ assignmentsByRow = AssignmentsByRowOf(<<>>)
  /\ codesWithFrequency = CodesWithFrequencyOf(<<>>, <<>>)
  /\ cooccurrence = CooccurrenceOf(AssignmentsByRowOf(<<>>))
  /\ saturation = SaturationOf(<<>>, <<>>)
  /\ uuidCount = 0
  /\ notified = <<>>
  /\ lastCall = Call("none", GhostCode, <<>>, NoPartial)
  /\ exported = <<>>
  /\ selectedRows = None
  /\ selectedCode = None
  /\ roundTrip = None
  /\ open = FALSE
  /\ rowId = None
  /\ rowData = None
  /\ loading = FALSE
  /\ queries = <<>>

\* ------------------------------------------------------- Mutation API
NewCodeUnnamed(partial, id, index) ==
  [id |-> id,
   name |-> OrElse(partial.name, ""),
   color |-> OrElse(partial.color, toColor(index)),
   parentId |-> partial.parentId,
   level |-> OrElse(partial.level, DefaultLevel),
   frequency |-> 0]

NewCode(partial, id, index) ==
  [id |-> id,
   name |-> OrElse(partial.name, "New Code"),
   color |-> OrElse(partial.color, toColor(index)),
   parentId |-> partial.parentId,
   level |-> OrElse(partial.level, DefaultLevel),
   frequency |-> 0]

createCodeCallPrepending(partial) ==
  LET code == NewCode(partial, createId("code", uuidCount + 1), Len(codes))
      appended == UpdateCodes(Current, <<code>> \o codes)
      logged == logEvent(appended, [action |-> "create", codeId |-> code.id,
                                    dataPointIds |-> <<>>])
  IN  /\ Commit(logged)
      /\ uuidCount' = uuidCount + 1
      /\ notified' = <<Delivery("codes", appended), Delivery("codingEvents", logged)>>
      /\ lastCall' = Call("createCode", code.id, <<>>, partial)
      /\ exported' = <<>>
      /\ UNCHANGED registries

\* createCode as the code runs it; createCode below keeps it within the
\* bounds of the exploration.
createCodeCall(partial) ==
  LET code == NewCode(partial, createId("code", uuidCount + 1), Len(codes))
      appended == UpdateCodes(Current, Append(codes, code))
      logged == logEvent(appended, [action |-> "create", codeId |-> code.id,
                                    dataPointIds |-> <<>>])
  IN  /\ Commit(logged)
      /\ uuidCount' = uuidCount + 1
      /\ notified' = <<Delivery("codes", appended), Delivery("codingEvents", logged)>>
      /\ lastCall' = Call("createCode", code.id, <<>>, partial)
      /\ exported' = <<>>
      /\ UNCHANGED registries

createCode(partial) ==
  /\ Len(codes) < MaxCodes
  /\ uuidCount < MaxUuids
  /\ Len(codingEvents) < MaxEvents
  /\ createCodeCall(partial)

AppliedRowsUnchecked(current, codeId, rowIds) ==
  WithEntry(current, codeId, RowsOf(current, codeId) \o rowIds)

AppliedRowsReplace(current, codeId, rowIds) == WithEntry(current, codeId, SetOf(rowIds))

AppliedRowsEverywhere(current, codeId, rowIds) ==
  LET table == WithEntry(current, codeId, RowsOf(current, codeId))
  IN  [i \in DOMAIN table |-> [table[i] EXCEPT !.rows = SetAddAll(@, rowIds)]]

AppliedRows(current, codeId, rowIds) ==
  WithEntry(current, codeId, SetAddAll(RowsOf(current, codeId), rowIds))

applyCodeUnguarded(codeId, rowIds) ==
  LET updated == UpdateAssignments(Current, AppliedRows(assignments, codeId, rowIds))
      logged == logEvent(updated, [action |-> "apply", codeId |-> codeId,
                                   dataPointIds |-> rowIds])
  IN  /\ Len(codingEvents) < MaxEvents
      /\ Commit(logged)
      /\ notified' = <<Delivery("assignments", updated), Delivery("codingEvents", logged)>>
      /\ lastCall' = Call("applyCode", codeId, rowIds, NoPartial)
      /\ exported' = <<>>
      /\ UNCHANGED <<registries, uuidCount>>

\* applyCode as the code runs it; applyCode below keeps it within the
\* bounds of the exploration.
applyCodeCall(codeId, rowIds) ==
  IF Len(rowIds) = 0
  THEN /\ lastCall' = Call("applyCode", codeId, rowIds, NoPartial)
       /\ exported' = <<>>
       /\ notified' = <<>>
       /\ UNCHANGED <<coding, derivedStores, registries, uuidCount>>
  ELSE LET updated == UpdateAssignments(Current, AppliedRows(assignments, codeId, rowIds))
           logged == logEvent(updated, [action |-> "apply", codeId |-> codeId,
                                        dataPointIds |-> rowIds])
       IN  /\ Commit(logged)
           /\ notified' = <<Delivery("assignments", updated),
                            Delivery("codingEvents", logged)>>
           /\ lastCall' = Call("applyCode", codeId, rowIds, NoPartial)
           /\ exported' = <<>>
           /\ UNCHANGED <<registries, uuidCount>>

applyCode(codeId, rowIds) ==
  /\ Len(rowIds) # 0 => Len(codingEvents) < MaxEvents
  /\ applyCodeCall(codeId, rowIds)

RemovedRowsCleared(current, codeId, rowIds) == WithEntry(current, codeId, <<>>)

RemovedRows(current, codeId, rowIds) ==
  WithEntry(current, codeId, SetDeleteAll(SetOf(RowsOf(current, codeId)), rowIds))

removeCode(codeId, rowIds) ==
  IF Len(rowIds) = 0
  THEN /\ lastCall' = Call("removeCode", codeId, rowIds, NoPartial)
       /\ exported' = <<>>
       /\ notified' = <<>>
       /\ UNCHANGED <<coding, derivedStores, registries, uuidCount>>
  ELSE LET updated == UpdateAssignments(Current, RemovedRows(assignments, codeId, rowIds))
           logged == logEvent(updated, [action |-> "remove", codeId |-> codeId,
                                        dataPointIds |-> rowIds])
       IN  /\ Len(codingEvents) < MaxEvents
           /\ Commit(logged)
           /\ notified' = <<Delivery("assignments", updated),
                            Delivery("codingEvents", logged)>>
           /\ lastCall' = Call("removeCode", codeId, rowIds, NoPartial)
           /\ exported' = <<>>
           /\ UNCHANGED <<registries, uuidCount>>

createMemoReplacing(memo) ==
  LET newMemo == [id |-> createId("memo", uuidCount + 1),
                  content |-> memo.content,
                  linkedCodes |-> memo.linkedCodes,
                  linkedDataPoints |-> memo.linkedDataPoints,
                  memoType |-> memo.memoType,
                  createdAt |-> uuidCount + 1]
  IN  /\ Len(memos) < MaxMemos
      /\ uuidCount < MaxUuids
      /\ memos' = <<newMemo>>
      /\ uuidCount' = uuidCount + 1
      /\ notified' = <<Delivery("memos", Current)>>
      /\ lastCall' = Call("createMemo", newMemo.id, <<>>, NoPartial)
      /\ exported' = <<>>
      /\ UNCHANGED <<relations, actors, actorLinks, coding, derivedStores>>

createMemoAppend(memo) ==
  LET newMemo == [id |-> createId("memo", uuidCount + 1),
                  content |-> memo.content,
                  linkedCodes |-> memo.linkedCodes,
                  linkedDataPoints |-> memo.linkedDataPoints,
                  memoType |-> memo.memoType,
                  createdAt |-> uuidCount + 1]
  IN  /\ Len(memos) < MaxMemos
      /\ uuidCount < MaxUuids
      /\ memos' = Append(memos, newMemo)
      /\ uuidCount' = uuidCount + 1
      /\ notified' = <<Delivery("memos", Current)>>
      /\ lastCall' = Call("createMemo", newMemo.id, <<>>, NoPartial)
      /\ exported' = <<>>
      /\ UNCHANGED <<relations, actors, actorLinks, coding, derivedStores>>

createMemo(memo) ==
  LET newMemo == [id |-> createId("memo", uuidCount + 1),
                  content |-> memo.content,
                  linkedCodes |-> memo.linkedCodes,
                  linkedDataPoints |-> memo.linkedDataPoints,
                  memoType |-> memo.memoType,
                  createdAt |-> uuidCount + 1]
  IN  /\ Len(memos) < MaxMemos
      /\ uuidCount < MaxUuids
      /\ memos' = <<newMemo>> \o memos
      /\ uuidCount' = uuidCount + 1
      /\ notified' = <<Delivery("memos", Current)>>
      /\ lastCall' = Call("createMemo", newMemo.id, <<>>, NoPartial)
      /\ exported' = <<>>
      /\ UNCHANGED <<relations, actors, actorLinks, coding, derivedStores>>

createRelationLogged(relation) ==
  LET newRelation == [id |-> createId("relation", uuidCount + 1),
                      fromCode |-> relation.fromCode,
                      toCode |-> relation.toCode,
                      relationType |-> relation.relationType]
      logged == logEvent(Current, [action |-> "create", codeId |-> newRelation.id,
                                   dataPointIds |-> <<>>])
  IN  /\ Len(relations) < MaxEntities
      /\ uuidCount < MaxUuids
      /\ Len(codingEvents) < MaxEvents
      /\ relations' = Append(relations, newRelation)
      /\ Commit(logged)
      /\ uuidCount' = uuidCount + 1
      /\ notified' = <<Delivery("relations", Current)>>
      /\ lastCall' = Call("createRelation", newRelation.id, <<>>, NoPartial)
      /\ exported' = <<>>
      /\ UNCHANGED <<memos, actors, actorLinks>>

createRelation(relation) ==
  LET newRelation == [id |-> createId("relation", uuidCount + 1),
                      fromCode |-> relation.fromCode,
                      toCode |-> relation.toCode,
                      relationType |-> relation.relationType]
  IN  /\ Len(relations) < MaxEntities
      /\ uuidCount < MaxUuids
      /\ relations' = Append(relations, newRelation)
      /\ uuidCount' = uuidCount + 1
      /\ notified' = <<Delivery("relations", Current)>>
      /\ lastCall' = Call("createRelation", newRelation.id, <<>>, NoPartial)
      /\ exported' = <<>>
      /\ UNCHANGED <<memos, actors, actorLinks, coding, derivedStores>>

addActor(actor) ==
  LET newActor == [id |-> createId("actor", uuidCount + 1),
                   name |-> actor.name,
                   actorType |-> actor.actorType,
                   role |-> actor.role]
  IN  /\ Len(actors) < MaxEntities
      /\ uuidCount < MaxUuids
      /\ actors' = Append(actors, newActor)
      /\ uuidCount' = uuidCount + 1
      /\ notified' = <<Delivery("actors", Current)>>
      /\ lastCall' = Call("addActor", newActor.id, <<>>, NoPartial)
      /\ exported' = <<>>
      /\ UNCHANGED <<memos, relations, actorLinks, coding, derivedStores>>

addActorLink(link) ==
  LET newLink == [id |-> createId("actor-link", uuidCount + 1),
                  fromActor |-> link.fromActor,
                  toActor |-> link.toActor,
                  translationType |-> link.translationType,
                  dataPointIds |-> link.dataPointIds]
  IN  /\ Len(actorLinks) < MaxEntities
      /\ uuidCount < MaxUuids
      /\ actorLinks' = Append(actorLinks, newLink)
      /\ uuidCount' = uuidCount + 1
      /\ notified' = <<Delivery("actorLinks", Current)>>
      /\ lastCall' = Call("addActorLink", newLink.id, <<>>, NoPartial)
      /\ exported' = <<>>
      /\ UNCHANGED <<memos, relations, actors, coding, derivedStores>>

exportRefiQdaLogged ==
  LET logged == logEvent(Current, [action |-> "create", codeId |-> GhostCode,
                                   dataPointIds |-> <<>>])
  IN  /\ Len(codingEvents) < MaxEvents
      /\ Commit(logged)
      /\ exported' = ExportOf(codes, memos, assignments)
      /\ notified' = <<Delivery("codingEvents", logged)>>
      /\ lastCall' = Call("exportRefiQda", GhostCode, <<>>, NoPartial)
      /\ UNCHANGED <<registries, uuidCount>>

exportRefiQda ==
  /\ exported' = ExportOf(codes, memos, assignments)
  /\ notified' = <<>>
  /\ lastCall' = Call("exportRefiQda", GhostCode, <<>>, NoPartial)
  /\ UNCHANGED <<registries, coding, derivedStores, uuidCount>>

\* crypto.randomUUID() (or Date.now() with Math.random()) gives a value it
\* gave before: the next id is made from an earlier uuid.  createId keeps no
\* record of the values it returned.
randomRepeats ==
  /\ uuidCount > 0
  /\ uuidCount' \in 0..(uuidCount - 1)
  /\ UNCHANGED <<registries, coding, derivedStores, notified, lastCall, exported>>

\* ------------------------------------------------------------- inputs
RowIdPool == {Num(1), Str(1), Num(2)}

\* The rowIds arguments: none, one row, the same row as number and as
\* string, one row twice, two rows.
RowIdLists ==
  {<<>>, <<Num(1)>>, <<Str(1)>>, <<Num(2)>>, <<Num(1), Num(1)>>, <<Num(1), Num(2)>>}

RegisteredIds == {codes[i].id : i \in DOMAIN codes}

CodeIdInputs == RegisteredIds \cup {GhostCode}

\* The partial arguments: nothing given, everything but the parent given,
\* only a parent given (a code of the registry).
PartialInputs ==
  {NoPartial, [name |-> Some("X"), color |-> Some("#fff"), level |-> Some(2), parentId |-> None]}
    \cup {[NoPartial EXCEPT !.parentId = Some(id)] : id \in RegisteredIds}

MemoInputs ==
  [content : {"note"}, linkedCodes : {<<>>} \cup {<<id>> : id \in CodeIdInputs},
   linkedDataPoints : {<<>>}, memoType : {"observational"}]

RelationInputs ==
  [fromCode : CodeIdInputs, toCode : CodeIdInputs, relationType : {"associates-with"}]

ActorInputs == [name : {"A"}, actorType : {"human"}, role : {"intermediary"}]

ActorIdInputs == {actors[i].id : i \in DOMAIN actors} \cup {createId("actor", 0)}

ActorLinkInputs ==
  [fromActor : ActorIdInputs, toActor : ActorIdInputs, translationType : {"translation"},
   dataPointIds : {<<>>}]

\* The panel's Add button: a trimmed, non-empty name, the level and the
\* parent of the two selects (none, or a code of the registry).
panelCreateCodeFrom(names, levels) ==
  \E name \in names, level \in levels, parent \in {None} \cup {Some(id) : id \in RegisteredIds} :
    createCode([name |-> Some(name), color |-> None, level |-> Some(level),
                parentId |-> parent])

panelCreateCode == panelCreateCodeFrom({"A", "B"}, 1..3)

\* The selection bar is on screen while some rows are selected.
BarShown == selectedRows # None /\ Len(selectedRows[1]) > 0

\* The chart selects rows, or none.
selectRows(rows) ==
  /\ selectedRows' = rows
  /\ UNCHANGED <<registries, coding, derivedStores, uuidCount, notified, lastCall,
                 exported, selectedCode>>

\* The bar's Clear button.
clearSelection ==
  /\ BarShown
  /\ selectedRows' = None
  /\ UNCHANGED <<registries, coding, derivedStores, uuidCount, notified, lastCall,
                 exported, selectedCode>>

barOptionsStale == {None} \cup {Some(id) : id \in CodeIdInputs}

\* The list of codes the bar is given is the Code registry.
barCodes == codes

\* The options of the bar's select: none, and one per code.
barOptions == {None} \cup {Some(barCodes[i].id) : i \in DOMAIN barCodes}

\* The bar's select changes.
chooseCode(v) ==
  /\ BarShown
  /\ selectedCode' = v
  /\ UNCHANGED <<registries, coding, derivedStores, uuidCount, notified, lastCall,
                 exported, selectedRows>>

\* The callback the bar is given applies the code through the store.
onApply(codeId, rows) == applyCode(codeId, rows)

\* The bar's Apply button: disabled while no code is chosen.
barApply ==
  /\ BarShown
  /\ selectedCode # None
  /\ onApply(selectedCode[1], OrElse(selectedRows, <<>>))
  /\ selectedCode' = None
  /\ UNCHANGED selectedRows

\* The codes the panel lists, each with its Apply and Remove buttons.
panelItems ==
  LET listed == flatCodes(codesWithFrequency)
  IN  IF listed.overflow THEN {} ELSE Elems(listed.items)

panelApply ==
  /\ \E item \in panelItems : applyCode(item.code.id, OrElse(selectedRows, <<>>))
  /\ UNCHANGED ui

panelRemove ==
  /\ \E item \in panelItems : removeCode(item.code.id, OrElse(selectedRows, <<>>))
  /\ UNCHANGED ui

\* The rows the chart can select.
SelectableRows == {None, Some(<<>>), Some(<<Num(1)>>), Some(<<Num(1), Num(2)>>)}

\* The store driven by the user interface alone.
NextUi ==
  /\ UNCHANGED <<roundTrip, modal>>
  /\ \/ panelCreateCodeFrom({"A"}, {1}) /\ UNCHANGED ui
     \/ \E rows \in SelectableRows : selectRows(rows)
     \/ clearSelection
     \/ \E v \in barOptions : chooseCode(v)
     \/ barApply
     \/ panelApply
     \/ panelRemove

\* The caller's record when it applies rows of which none is assigned to
\* the code: the stores before the call, and the arguments.
tripStarted(codeId, rowIds) ==
  IF rowIds # <<>> /\ Elems(rowIds) \cap Elems(RowsOf(assignments, codeId)) = {}
  THEN Some([before |-> Current, codeId |-> codeId, rowIds |-> rowIds, removed |-> FALSE])
  ELSE None

\* The caller's record when it removes: the round trip is complete when the
\* call undoes the apply just made, with the same arguments.
tripEnded(codeId, rowIds) ==
  IF roundTrip # None /\ ~roundTrip[1].removed
     /\ roundTrip[1].codeId = codeId /\ roundTrip[1].rowIds = rowIds
  THEN Some([roundTrip[1] EXCEPT !.removed = TRUE])
  ELSE None

\* The rowIds of the round trips: one row as number and as string, two rows.
TripRowIdLists == {<<Num(1)>>, <<Str(1)>>, <<Num(1), Num(2)>>}

\* The coding calls of a caller who applies and then removes.
NextRoundTrip ==
  /\ UNCHANGED <<ui, modal>>
  /\ \/ createCode(NoPartial) /\ roundTrip' = None
     \/ \E codeId \in CodeIdInputs, rowIds \in TripRowIdLists :
          applyCode(codeId, rowIds) /\ roundTrip' = tripStarted(codeId, rowIds)
     \/ \E codeId \in CodeIdInputs, rowIds \in TripRowIdLists :
          removeCode(codeId, rowIds) /\ roundTrip' = tripEnded(codeId, rowIds)

\* ------------------------------------------------ the point-details modal
\* The row queries the modal may issue in one exploration.
MaxQueries == 3

\* What stays as it is while the modal acts.
aroundModal ==
  <<registries, coding, derivedStores, uuidCount, notified, lastCall, exported, ui,
    roundTrip>>

effectCleanupMissing(issued) == issued

\* The cleanup of the previous run of the effect: isCancelled = true (the
\* queries of the runs before it were cancelled by their own cleanup).
effectCleanup(issued) == [i \in DOMAIN issued |-> [issued[i] EXCEPT !.isCancelled = TRUE]]

\* result.get(0) ?? null for the query with that serial number, when the
\* table has the row.
RowOf(row, serial) == Some([rowId |-> row, query |-> serial])

\* The props change and the effect runs again: first the cleanup of the
\* previous run, then the body with the new props.
propsChange(newOpen, newRowId) ==
  /\ <<newOpen, newRowId>> # <<open, rowId>>
  /\ open' = newOpen
  /\ rowId' = newRowId
  /\ IF ~newOpen \/ newRowId = None
     THEN /\ rowData' = None
          /\ queries' = effectCleanup(queries)
          /\ UNCHANGED loading
     ELSE /\ Len(queries) < MaxQueries
          /\ loading' = TRUE
          /\ queries' = Append(effectCleanup(queries),
                               [rowId |-> newRowId, isCancelled |-> FALSE,
                                stage |-> "pending"])
          /\ UNCHANGED rowData
  /\ UNCHANGED aroundModal

\* The query is fulfilled and the then callback runs.
queryFulfils(i, found) ==
  /\ queries[i].stage = "pending"
  /\ queries' = [queries EXCEPT ![i].stage = "fulfilled"]
  /\ rowData' = IF queries[i].isCancelled THEN rowData
                ELSE IF found THEN RowOf(queries[i].rowId, i) ELSE None
  /\ UNCHANGED <<open, rowId, loading, aroundModal>>

\* The query is rejected: the then callback is skipped.
queryRejects(i) ==
  /\ queries[i].stage = "pending"
  /\ queries' = [queries EXCEPT ![i].stage = "rejected"]
  /\ UNCHANGED <<open, rowId, rowData, loading, aroundModal>>

\* The finally callback runs, after either outcome.
queryFinally(i) ==
  /\ queries[i].stage \in {"fulfilled", "rejected"}
  /\ queries' = [queries EXCEPT ![i].stage = "settled"]
  /\ loading' = IF queries[i].isCancelled THEN loading ELSE FALSE
  /\ UNCHANGED <<open, rowId, rowData, aroundModal>>

\* The rows the modal is opened for.
ModalRowIds == {None, Num(1), Num(2)}

NextModal ==
  \/ \E newOpen \in BOOLEAN, newRowId \in ModalRowIds : propsChange(newOpen, newRowId)
  \/ \E i \in DOMAIN queries, found \in BOOLEAN : queryFulfils(i, found)
  \/ \E i \in DOMAIN queries : queryRejects(i)
  \/ \E i \in DOMAIN queries : queryFinally(i)

\* The coding calls: createCode, applyCode, removeCode.
Next ==
  /\ UNCHANGED <<ui, roundTrip, modal>>
  /\ \/ \E partial \in PartialInputs : createCode(partial)
     \/ \E codeId \in CodeIdInputs, rowIds \in RowIdLists : applyCode(codeId, rowIds)
     \/ \E codeId \in CodeIdInputs, rowIds \in RowIdLists : removeCode(codeId, rowIds)

\* The whole Mutation API, with one row to apply and remove.
NextApi ==
  /\ UNCHANGED <<ui, roundTrip, modal>>
  /\ \/ createCode(NoPartial)
     \/ \E codeId \in CodeIdInputs, rowIds \in {<<>>, <<Num(1)>>} : applyCode(codeId, rowIds)
     \/ \E codeId \in CodeIdInputs, rowIds \in {<<>>, <<Num(1)>>} : removeCode(codeId, rowIds)
     \/ \E memo \in MemoInputs : createMemo(memo)
     \/ \E relation \in RelationInputs : createRelation(relation)
     \/ \E actor \in ActorInputs : addActor(actor)
     \/ \E link \in ActorLinkInputs : addActorLink(link)

\* A coding session long enough for the Audit Log to outgrow the saturation
\* window, with one code more than the saturation threshold.
NextSaturation ==
  /\ UNCHANGED <<ui, roundTrip, modal>>
  /\ \/ /\ Len(codes) <= SaturationThreshold
        /\ Len(codingEvents) <= RecentWindow
        /\ createCodeCall(NoPartial)
     \/ /\ Len(codingEvents) <= RecentWindow
        /\ applyCodeCall(GhostCode, <<Num(1)>>)

\* The partial arguments of a session that is exported: a name with markup
\* in it, a name and a color, a parent.
ExportPartialInputs ==
  {[NoPartial EXCEPT !.name = Some(MarkupName)],
   [NoPartial EXCEPT !.name = Some("X"), !.color = Some("#fff")]}
    \cup {[NoPartial EXCEPT !.parentId = Some(id)] : id \in RegisteredIds}

\* Coding, memo writing and export.
NextExport ==
  /\ UNCHANGED <<ui, roundTrip, modal>>
  /\ \/ \E partial \in ExportPartialInputs : createCode(partial)
     \/ \E codeId \in CodeIdInputs, rowIds \in {<<Str(0)>>, <<Str(1), Num(2)>>} :
          applyCode(codeId, rowIds)
     \/ \E codeId \in CodeIdInputs, rowIds \in {<<Str(0)>>, <<Str(1), Num(2)>>} :
          removeCode(codeId, rowIds)
     \/ \E memo \in MemoInputs : createMemo(memo)
     \/ exportRefiQda

\* The coding scenario: a code named "Theme A", rows 1, 2 and 3 applied,
\* row 2 removed, in any order and for any code id.
NextScenario ==
  /\ UNCHANGED <<ui, roundTrip, modal>>
  /\ \/ createCode([NoPartial EXCEPT !.name = Some("Theme A")])
     \/ \E codeId \in CodeIdInputs, rowIds \in {<<Num(1), Num(2), Num(3)>>, <<Num(2)>>} :
          applyCode(codeId, rowIds)
     \/ \E codeId \in CodeIdInputs, rowIds \in {<<Num(1), Num(2), Num(3)>>, <<Num(2)>>} :
          removeCode(codeId, rowIds)

\* The number of ids createId has returned to the calls that keep them.
IdsMade == Len(codes) + Len(memos) + Len(relations) + Len(actors) + Len(actorLinks)

\* The calls that make ids, with a random source that may repeat itself.
NextIds ==
  /\ UNCHANGED <<ui, roundTrip, modal>>
  /\ \/ IdsMade < MaxUuids /\ createCode(NoPartial)
     \/ IdsMade < MaxUuids /\ \E memo \in MemoInputs : createMemo(memo)
     \/ IdsMade < MaxUuids /\ \E relation \in RelationInputs : createRelation(relation)
     \/ IdsMade < MaxUuids /\ \E actor \in ActorInputs : addActor(actor)
     \/ IdsMade < MaxUuids /\ \E link \in ActorLinkInputs : addActorLink(link)
     \/ randomRepeats

\* One code more than the palette has colors, each created with or without
\* a color of the caller's.
NextPalette ==
  /\ UNCHANGED <<ui, roundTrip, modal>>
  /\ Len(codes) <= Len(Palette)
  /\ \E partial \in {NoPartial, [NoPartial EXCEPT !.color = Some("#fff")]} :
       createCodeCall(partial)

\* The code ids of a session that looks at the order of the keys: the
\* registered ones, two unregistered ones, and two integer-like strings.
OrderCodeIdInputs == CodeIdInputs \cup {createId("tag", 0), Digits(1), Digits(2)}

NextOrder ==
  /\ UNCHANGED <<ui, roundTrip, modal>>
  /\ \/ createCode(NoPartial)
     \/ \E codeId \in OrderCodeIdInputs, rowIds \in {<<Num(1)>>, <<Num(2)>>} :
          applyCode(codeId, rowIds)
     \/ \E codeId \in OrderCodeIdInputs : removeCode(codeId, <<Num(1)>>)

\* Codes made through the panel, with a random source that may repeat itself.
NextPanel ==
  /\ UNCHANGED <<ui, roundTrip, modal>>
  /\ \/ panelCreateCode
     \/ randomRepeats

Spec == Init /\ [][Next]_vars

SpecApi == Init /\ [][NextApi]_vars

SpecSaturation == Init /\ [][NextSaturation]_vars

SpecExport == Init /\ [][NextExport]_vars

SpecScenario == Init /\ [][NextScenario]_vars

SpecIds == Init /\ [][NextIds]_vars

SpecPalette == Init /\ [][NextPalette]_vars

SpecOrder == Init /\ [][NextOrder]_vars

SpecPanel == Init /\ [][NextPanel]_vars

SpecUi == Init /\ [][NextUi]_vars

SpecRoundTrip == Init /\ [][NextRoundTrip]_vars

SpecModal == Init /\ [][NextModal]_vars

\* ------------------------------------------------------------- claims
\* The row ids currently in the assignment set of a code id.
AssignedRows(codeId) == Elems(RowsOf(assignments, codeId))

NoRepeats(seq) == Cardinality(Elems(seq)) = Len(seq)

IsPrefix(s, t) == Len(s) <= Len(t) /\ SubSeq(t, 1, Len(s)) = s

\* C1: every entry of codesWithFrequency has frequency equal to the number
\* of row ids currently in the assignment set of that code's id (0 when the
\* code has no entry in the Assignment Table).
C1_FrequencyIsAssignmentCount ==
  \A i \in DOMAIN codesWithFrequency :
    codesWithFrequency[i].frequency = Cardinality(AssignedRows(codesWithFrequency[i].id))

\* A code shows frequency 2 right after a removeCode call with rows.
C1_Witness ==
  /\ lastCall.op = "removeCode"
  /\ lastCall.rowIds # <<>>
  /\ \E i \in DOMAIN codesWithFrequency : codesWithFrequency[i].frequency = 2

\* C2: assignmentsByRow is exactly the inversion of the Assignment Table:
\* code c is in assignmentsByRow[String(r)] if and only if r is in the
\* assignment set of c, no code occurs twice in a row's list, a row with no
\* code has no key, and the value is a function of the table alone.
C2_ByRowIsInversion ==
  /\ \A c \in CodeIdInputs, r \in RowIdPool :
       (HasKey(assignmentsByRow, String(r)) /\ c \in Elems(assignmentsByRow[String(r)]))
         <=> r \in AssignedRows(c)
  /\ \A key \in DOMAIN assignmentsByRow :
       NoRepeats(assignmentsByRow[key]) /\ assignmentsByRow[key] # <<>>
  /\ assignmentsByRow = AssignmentsByRowOf(assignments)

CountOf(a, b) ==
  IF HasKey(cooccurrence, a) /\ HasKey(cooccurrence[a], b) THEN cooccurrence[a][b] ELSE 0

\* C3: for every two distinct codes a and b, cooccurrence[a][b] is the
\* number of rows to which both a and b are currently assigned (an absent
\* entry counting as 0).
C3_CooccurrenceCountsSharedRows ==
  \A a \in CodeIdInputs, b \in CodeIdInputs :
    a # b => CountOf(a, b) = Cardinality(AssignedRows(a) \cap AssignedRows(b))

\* C4: every code id that is a key of the Assignment Table, the codeId of a
\* CodingEvent, an endpoint of a relation or a member of a memo's
\* linkedCodes is the id of a code in the Code registry.
C4_ReferencedCodesExist ==
  /\ \A i \in DOMAIN assignments : assignments[i].codeId \in RegisteredIds
  /\ \A i \in DOMAIN codingEvents : codingEvents[i].codeId \in RegisteredIds
  /\ \A i \in DOMAIN relations :
       relations[i].fromCode \in RegisteredIds /\ relations[i].toCode \in RegisteredIds
  /\ \A i \in DOMAIN memos : Elems(memos[i].linkedCodes) \subseteq RegisteredIds

\* C5: the Audit Log is append-only: over every Mutation API call the log
\* before the call is a prefix of the log after it, and the call appends at
\* most one event.
C5_AuditLogAppendOnly ==
  [][/\ IsPrefix(codingEvents, codingEvents')
     /\ Len(codingEvents') <= Len(codingEvents) + 1]_vars

\* The log holds two events and the last call was one that does not log.
C5_Witness ==
  /\ Len(codingEvents) >= 2
  /\ lastCall.op \in {"createMemo", "createRelation", "addActor", "addActorLink"}

\* C6: no subscriber is notified with a state in which the call has made
\* only part of its writes: every snapshot delivered during a call shows the
\* Code registry, the Assignment Table and the Audit Log as they are when
\* the call returns.
C6_NoPartialWriteObserved ==
  \A i \in DOMAIN notified :
    /\ notified[i].codes = codes
    /\ notified[i].assignments = assignments
    /\ notified[i].codingEvents = codingEvents

DerivedAgree(st) ==
  /\ st.assignmentsByRow = AssignmentsByRowOf(st.assignments)
  /\ st.codesWithFrequency = CodesWithFrequencyOf(st.codes, st.assignments)
  /\ st.cooccurrence = CooccurrenceOf(st.assignmentsByRow)
  /\ st.saturation = SaturationOf(st.codes, st.codingEvents)

\* C7: whenever a derived value is read or delivered to a subscriber it
\* equals its function of the current values of its declared inputs; after
\* a write to assignments, cooccurrence has been recomputed through
\* assignmentsByRow.
C7_DerivedNeverStale ==
  /\ DerivedAgree(Current)
  /\ \A i \in DOMAIN notified : DerivedAgree(notified[i])
  /\ \A i \in DOMAIN notified :
       notified[i].store = "assignments" =>
         notified[i].cooccurrence = CooccurrenceOf(AssignmentsByRowOf(notified[i].assignments))

\* The write to assignments was delivered with a cooccurrence matrix that
\* has entries.
C7_Witness ==
  \E i \in DOMAIN notified :
    notified[i].store = "assignments" /\ DOMAIN notified[i].cooccurrence # {}

\* C8: no row id occurs more than once in any code's assignment list.
C8_NoDuplicateRows ==
  \A i \in DOMAIN assignments : NoRepeats(assignments[i].rows)

\* applyCode was called with the same row id twice in rowIds, for a code
\* that already had that row.
C8_Witness ==
  /\ lastCall.op = "applyCode"
  /\ Len(lastCall.rowIds) = 2
  /\ lastCall.rowIds[1] = lastCall.rowIds[2]
  /\ Len(codingEvents) >= 2
  /\ codingEvents[Len(codingEvents) - 1].action = "apply"
  /\ codingEvents[Len(codingEvents) - 1].codeId = lastCall.codeId
  /\ lastCall.rowIds[1] \in Elems(codingEvents[Len(codingEvents) - 1].dataPointIds)

\* C9: applyCode(c, R) called a second time, right after applyCode(c, R),
\* leaves the Assignment Table, the frequencies, assignmentsByRow and
\* cooccurrence as the first call left them.
C9_ApplyIdempotent ==
  [][(/\ lastCall.op = "applyCode"
      /\ lastCall.rowIds # <<>>
      /\ lastCall' = lastCall)
     => /\ assignments' = assignments
        /\ codesWithFrequency' = codesWithFrequency
        /\ assignmentsByRow' = assignmentsByRow
        /\ cooccurrence' = cooccurrence]_vars

\* The last two events of the log are the same apply, of two rows.
C9_Witness ==
  /\ Len(codingEvents) >= 2
  /\ codingEvents[Len(codingEvents)].action = "apply"
  /\ codingEvents[Len(codingEvents)] = codingEvents[Len(codingEvents) - 1]
  /\ Len(codingEvents[Len(codingEvents)].dataPointIds) = 2
  /\ lastCall.op = "applyCode"

\* C10: for non-empty R, applyCode(c, R) makes the assignment set of c its
\* previous set united with R, creating the entry when c had none, and
\* appends exactly one apply event carrying c and R, for a registered and
\* for an unregistered c alike.
C10_ApplyUnionsAndLogs ==
  [][(/\ lastCall'.op = "applyCode"
      /\ lastCall'.rowIds # <<>>
      /\ codingEvents' # codingEvents)
     => /\ HasEntry(assignments', lastCall'.codeId)
        /\ Elems(RowsOf(assignments', lastCall'.codeId))
             = Elems(RowsOf(assignments, lastCall'.codeId)) \cup Elems(lastCall'.rowIds)
        /\ codingEvents' = Append(codingEvents,
                                  [action |-> "apply", codeId |-> lastCall'.codeId,
                                   dataPointIds |-> lastCall'.rowIds])]_vars

\* applyCode added rows to a non-empty assignment set of a code id that is
\* not in the Code registry.
C10_Witness ==
  /\ lastCall.op = "applyCode"
  /\ lastCall.codeId \notin RegisteredIds
  /\ Len(RowsOf(assignments, lastCall.codeId)) > Cardinality(Elems(lastCall.rowIds))
  /\ lastCall.rowIds # <<>>

\* The (code, row) pairs of an Assignment Table.
PairsOf(table) ==
  UNION {{<<table[i].codeId, table[i].rows[k]>> : k \in DOMAIN table[i].rows}
           : i \in DOMAIN table}

\* C11: for non-empty R, removeCode(c, R) makes the assignment set of c its
\* previous set minus R and appends exactly one remove event carrying c and
\* the whole of R; when no row of R was assigned to c the set of assigned
\* (code, row) pairs is unchanged.
C11_RemoveSubtractsAndLogs ==
  [][(/\ lastCall'.op = "removeCode"
      /\ lastCall'.rowIds # <<>>
      /\ codingEvents' # codingEvents)
     => /\ Elems(RowsOf(assignments', lastCall'.codeId))
             = Elems(RowsOf(assignments, lastCall'.codeId)) \ Elems(lastCall'.rowIds)
        /\ codingEvents' = Append(codingEvents,
                                  [action |-> "remove", codeId |-> lastCall'.codeId,
                                   dataPointIds |-> lastCall'.rowIds])
        /\ (Elems(lastCall'.rowIds) \cap Elems(RowsOf(assignments, lastCall'.codeId)) = {}
              => PairsOf(assignments') = PairsOf(assignments))]_vars

\* Right after applyCode(c, R1), removeCode(c, R2) was called with rows of
\* which none was assigned to c: the rows of c are still there and the
\* remove event carries R2.
C11_Witness ==
  /\ Len(codingEvents) = 2
  /\ codingEvents[1].action = "apply"
  /\ codingEvents[2].action = "remove"
  /\ codingEvents[2].codeId = codingEvents[1].codeId
  /\ Elems(codingEvents[2].dataPointIds) \cap Elems(codingEvents[1].dataPointIds) = {}
  /\ Len(RowsOf(assignments, codingEvents[2].codeId)) = 2

\* C12: applyCode and removeCode with an empty rowIds list change nothing:
\* the Assignment Table, the Audit Log, every registry and every derived
\* value stay as they were, and no store notifies.
C12_EmptyRowIdsNoOp ==
  [][(lastCall'.op \in {"applyCode", "removeCode"} /\ lastCall'.rowIds = <<>>)
       => /\ UNCHANGED <<coding, registries, derivedStores, uuidCount>>
          /\ notified' = <<>>]_vars

\* An empty applyCode call for an unregistered code, made when the table
\* and the log already have content.
C12_Witness ==
  /\ lastCall.op = "applyCode"
  /\ lastCall.rowIds = <<>>
  /\ lastCall.codeId = GhostCode
  /\ ~HasEntry(assignments, GhostCode)
  /\ assignments # <<>>
  /\ Len(codingEvents) = 2

\* C13: createCode(partial) appends exactly one code at the end of the Code
\* registry (name defaulting to "New Code", level to 1, frequency 0), appends
\* exactly one create event with the new code's id and no data points, and
\* returns that same code.
C13_CreateCodeAppendsAndLogs ==
  [][lastCall'.op = "createCode"
       => LET code == codes'[Len(codes')]
              partial == lastCall'.partial
          IN  /\ codes' = Append(codes, code)
              /\ code.id = lastCall'.codeId
              /\ code.id \notin RegisteredIds
              /\ code.name = (IF partial.name = None THEN "New Code" ELSE partial.name[1])
              /\ code.level = (IF partial.level = None THEN 1 ELSE partial.level[1])
              /\ code.frequency = 0
              /\ codingEvents' = Append(codingEvents, [action |-> "create", codeId |-> code.id,
                                                       dataPointIds |-> <<>>])]_vars

\* A second code created with nothing given, after rows were assigned.
C13_Witness ==
  /\ lastCall.op = "createCode"
  /\ lastCall.partial = NoPartial
  /\ Len(codes) = 2
  /\ codes[2].name = "New Code"
  /\ assignments # <<>>

\* C15: the co-occurrence matrix is symmetric: for all codes a # b,
\* cooccurrence[a][b] and cooccurrence[b][a] are both absent or both present
\* with the same value.
C15_CooccurrenceSymmetric ==
  \A a \in CodeIdInputs, b \in CodeIdInputs :
    a # b =>
      LET ab == HasKey(cooccurrence, a) /\ HasKey(cooccurrence[a], b)
          ba == HasKey(cooccurrence, b) /\ HasKey(cooccurrence[b], a)
      IN  /\ ab <=> ba
          /\ ab => cooccurrence[a][b] = cooccurrence[b][a]

\* Two codes share two rows.
C15_Witness ==
  \E a \in CodeIdInputs, b \in CodeIdInputs :
    /\ a # b
    /\ HasKey(cooccurrence, a)
    /\ HasKey(cooccurrence[a], b)
    /\ cooccurrence[a][b] = 2

IsSuffix(s, t) == Len(s) <= Len(t) /\ SubSeq(t, Len(t) - Len(s) + 1, Len(t)) = s

C17_EntityCallsAddOneEntity ==
  [][LET Added(old, new) ==
           /\ Len(new) = Len(old) + 1
           /\ \E k \in DOMAIN new :
                /\ new[k].id = lastCall'.codeId
                /\ old = [i \in 1..Len(old) |-> IF i < k THEN new[i] ELSE new[i + 1]]
     IN  /\ lastCall'.op \in {"createMemo", "createRelation", "addActor", "addActorLink"}
               => UNCHANGED <<coding, derivedStores>>
         /\ lastCall'.op = "createMemo"
               => Added(memos, memos') /\ UNCHANGED <<relations, actors, actorLinks>>
         /\ lastCall'.op = "createRelation"
               => Added(relations, relations') /\ UNCHANGED <<memos, actors, actorLinks>>
         /\ lastCall'.op = "addActor"
               => Added(actors, actors') /\ UNCHANGED <<memos, relations, actorLinks>>
         /\ lastCall'.op = "addActorLink"
               => Added(actorLinks, actorLinks') /\ UNCHANGED <<memos, relations, actors>>]_vars

\* A relation from an unregistered code to itself was accepted while the
\* Audit Log and the Assignment Table had content.
C17_Witness ==
  /\ lastCall.op = "createRelation"
  /\ Len(relations) = 1
  /\ relations[1].fromCode = GhostCode
  /\ relations[1].toCode = GhostCode
  /\ GhostCode \notin RegisteredIds
  /\ codingEvents # <<>>
  /\ assignments # <<>>

\* C18: the Memo registry is in reverse creation order: createMemo puts the
\* new memo at index 0 and shifts every existing memo back by one, so of any
\* two memos the one created later comes first.
C18_MemosNewestFirst ==
  [][memos' # memos
       => /\ memos'[1].id = lastCall'.codeId
          /\ Tail(memos') = memos
          /\ \A i \in DOMAIN memos', j \in DOMAIN memos' :
               i < j => memos'[i].id[2] > memos'[j].id[2]]_vars

\* A second memo was created and stands first.
C18_Witness ==
  /\ lastCall.op = "createMemo"
  /\ Len(memos) = 2
  /\ memos[1].id = lastCall.codeId
  /\ memos[2].id # lastCall.codeId

\* C14: saturation.totalCodes is the length of the Code registry,
\* saturation.recentNewCodes the number of create events among the last 50
\* entries of the Audit Log (all entries when there are fewer), and trend is
\* "Approaching saturation" exactly when recentNewCodes <= 2 and "Exploring"
\* otherwise.
C14_SaturationSummary ==
  LET n == Len(codingEvents)
      last50 == {i \in 1..n : i > n - 50}
      creates == Cardinality({i \in last50 : codingEvents[i].action = "create"})
  IN  /\ saturation.totalCodes = Len(codes)
      /\ saturation.recentNewCodes = creates
      /\ creates <= 2 => saturation.trend = "Approaching saturation"
      /\ creates >= 3 => saturation.trend = "Exploring"

\* Three codes exist, the create event of the first has left the window of
\* 50 entries, and the trend is back to "Approaching saturation".
C14_Witness ==
  /\ Len(codingEvents) = 51
  /\ codingEvents[1].action = "create"
  /\ Len(codes) = 3
  /\ saturation.recentNewCodes = 2
  /\ saturation.trend = "Approaching saturation"

\* C19: exportRefiQda is side-effect-free: the call leaves every registry,
\* the Assignment Table, the Audit Log and every derived value unchanged and
\* notifies nobody, and a second call right after the first returns the same
\* text.
C19_ExportSideEffectFree ==
  [][lastCall'.op = "exportRefiQda"
       => /\ UNCHANGED <<registries, coding, derivedStores, uuidCount>>
          /\ notified' = <<>>
          /\ lastCall.op = "exportRefiQda" => exported' = exported]_vars

\* An export of a store with a code, a memo and an assignment.
C19_Witness ==
  /\ lastCall.op = "exportRefiQda"
  /\ codes # <<>>
  /\ memos # <<>>
  /\ PairsOf(assignments) # {}
  /\ exported = ExportOf(codes, memos, assignments)

\* The number of places of a text where the units of pattern stand.
Occurrences(text, pattern) ==
  Cardinality({i \in 1..(Len(text) - Len(pattern) + 1) :
                 SubSeq(text, i, i + Len(pattern) - 1) = pattern})

\* C20: the exported document has exactly one <Code> element per code of the
\* registry (with an empty parentId attribute when the code has no parent),
\* exactly one <Memo> element per memo and exactly one <Coding> element per
\* (codeId, rowId) pair of the Assignment Table.
C20_OneElementPerEntity ==
  lastCall.op = "exportRefiQda"
    => /\ Occurrences(exported, <<"<", "Code id=">>) = Len(codes)
       /\ Occurrences(exported, <<" parentId=", "\"", "\"">>)
            = Cardinality({i \in DOMAIN codes : codes[i].parentId = None})
       /\ Occurrences(exported, <<"<", "Memo id=">>) = Len(memos)
       /\ Occurrences(exported, <<"<", "Coding codeId=">>) = Cardinality(PairsOf(assignments))

ReservedCharacters == {"&", "<", ">", "\"", "'"}

\* C21: the exported document is well-formed: a reserved character of a code
\* name, id, color, parentId, memo content or row id is escaped, so the only
\* reserved characters that stand in the text are those of the markup (10
\* around the elements, 14 per <Code>, 14 per <Memo>, 8 per <Coding>).
C21_ReservedCharactersEscaped ==
  lastCall.op = "exportRefiQda"
    => Cardinality({i \in DOMAIN exported : exported[i] \in ReservedCharacters})
         = 10 + 14 * Len(codes) + 14 * Len(memos) + 8 * Cardinality(PairsOf(assignments))

\* The store of the export scenario, just exported: exactly one code
\* (id code-1, name X, color #fff, level 1, no parent), no memos, and the
\* single assignment code-1 -> row "0".
OneCodeOneCoding ==
  /\ lastCall.op = "exportRefiQda"
  /\ codes = <<[id |-> createId("code", 1), name |-> "X", color |-> "#fff", level |-> 1,
                parentId |-> None, frequency |-> 0]>>
  /\ memos = <<>>
  /\ PairsOf(assignments) = {<<createId("code", 1), Str(0)>>}

\* <Project><Code id="code-1" name="X" color="#fff" level="1" parentId="">
\* </Code><Coding codeId="code-1" dataPointId="0"></Coding></Project>
ScenarioDocument ==
  <<"<", "Project", ">",
    "<", "Code id=", "\"", "code", "-", "1", "\"", " name=", "\"", "X", "\"",
    " color=", "\"", "#fff", "\"", " level=", "\"", "1", "\"", " parentId=", "\"", "\"", ">",
    "<", "/Code", ">",
    "<", "Coding codeId=", "\"", "code", "-", "1", "\"", " dataPointId=", "\"", "0", "\"", ">",
    "<", "/Coding", ">",
    "<", "/Project", ">">>

\* C22 as stated: in the export scenario exportRefiQda yields exactly the
\* scenario document.
C22_ScenarioYieldsDocument == OneCodeOneCoding => exported = ScenarioDocument

\* C22: in the export scenario exportRefiQda yields the XML declaration
\* <?xml version="1.0" encoding="UTF-8"?> followed by exactly the scenario
\* document.
C22_ScenarioYieldsDeclarationAndDocument ==
  OneCodeOneCoding
    => exported = <<"<", "?xml version=", "\"", "1.0", "\"", " encoding=", "\"", "UTF-8", "\"",
                    "?", ">">> \o ScenarioDocument

\* The export scenario has been played.
C22_Witness == OneCodeOneCoding /\ Len(exported) > Len(ScenarioDocument)

\* The live frequency of a code of the registry.
FrequencyOf(codeId) ==
  LET i == CHOOSE k \in DOMAIN codesWithFrequency : codesWithFrequency[k].id = codeId
  IN  codesWithFrequency[i].frequency

\* C23: from an empty store, createCode followed by applyCode(id, [1,2,3])
\* gives assignmentsByRow["1"] = [id] and frequency 3; a following
\* removeCode(id, [2]) gives frequency 2, id no longer under row "2", and
\* rows "1" and "3" still mapped to id.
C23_ApplyThenRemoveScenario ==
  \A id \in RegisteredIds :
    LET created == [action |-> "create", codeId |-> id, dataPointIds |-> <<>>]
        applied == [action |-> "apply", codeId |-> id,
                    dataPointIds |-> <<Num(1), Num(2), Num(3)>>]
        removed == [action |-> "remove", codeId |-> id, dataPointIds |-> <<Num(2)>>]
    IN  /\ codingEvents = <<created, applied>>
          => /\ HasKey(assignmentsByRow, "1")
             /\ assignmentsByRow["1"] = <<id>>
             /\ FrequencyOf(id) = 3
        /\ codingEvents = <<created, applied, removed>>
          => /\ FrequencyOf(id) = 2
             /\ ~(HasKey(assignmentsByRow, "2") /\ id \in Elems(assignmentsByRow["2"]))
             /\ HasKey(assignmentsByRow, "1") /\ assignmentsByRow["1"] = <<id>>
             /\ HasKey(assignmentsByRow, "3") /\ assignmentsByRow["3"] = <<id>>

\* The whole scenario has been played.
C23_Witness ==
  /\ Len(codes) = 1
  /\ Len(codingEvents) = 3
  /\ codingEvents[1].action = "create"
  /\ codingEvents[2] = [action |-> "apply", codeId |-> codes[1].id,
                        dataPointIds |-> <<Num(1), Num(2), Num(3)>>]
  /\ codingEvents[3] = [action |-> "remove", codeId |-> codes[1].id,
                        dataPointIds |-> <<Num(2)>>]
  /\ codes[1].name = "Theme A"

IdsOf(registry) == [i \in DOMAIN registry |-> registry[i].id]

\* C24: createId never returns a value it returned before, so all entity
\* ids are pairwise distinct, and each id starts with the prefix of its
\* registry followed by "-".
C24_IdsDistinctAndPrefixed ==
  LET all == IdsOf(codes) \o IdsOf(memos) \o IdsOf(relations) \o IdsOf(actors)
               \o IdsOf(actorLinks)
      Prefixed(registry, prefix) ==
        \A i \in DOMAIN registry :
          SubSeq(IdText(registry[i].id), 1, 2) = <<prefix, "-">>
  IN  /\ NoRepeats(all)
      /\ Prefixed(codes, "code")
      /\ Prefixed(memos, "memo")
      /\ Prefixed(relations, "relation")
      /\ Prefixed(actors, "actor")
      /\ Prefixed(actorLinks, "actor-link")

\* C25: createCode without a color gives the new code the color
\* palette[n mod 8], n being the number of codes in the registry just before
\* the call; a color given by the caller is kept as it is, and the code still
\* counts towards n for the later codes.
C25_ColorFromPalette ==
  [][lastCall'.op = "createCode"
       => LET n == Len(codes)
              code == codes'[n + 1]
              given == lastCall'.partial.color
          IN  /\ Len(codes') = n + 1
              /\ given = None => code.color = Palette[(n % 8) + 1]
              /\ given # None => code.color = given[1]]_vars

\* The ninth code wraps around to the first color of the palette, after a
\* first code with a color of the caller's and a second with the second
\* color of the palette.
C25_Witness ==
  /\ Len(codes) = 9
  /\ codes[1].color = "#fff"
  /\ codes[2].color = "#16a34a"
  /\ codes[9].color = "#2563eb"

\* The position in the Audit Log of the first applyCode or removeCode call
\* that named the code.
FirstNamed(codeId) ==
  CHOOSE i \in DOMAIN codingEvents :
    /\ codingEvents[i].codeId = codeId
    /\ codingEvents[i].action \in {"apply", "remove"}
    /\ \A k \in 1..(i - 1) :
         ~(codingEvents[k].codeId = codeId /\ codingEvents[k].action \in {"apply", "remove"})

\* C26 as stated: within each row's list of assignmentsByRow the codes stand
\* in the order in which their keys were first inserted into the Assignment
\* Table.
C26_RowListInInsertionOrder ==
  \A key \in DOMAIN assignmentsByRow :
    \A i \in DOMAIN assignmentsByRow[key], j \in DOMAIN assignmentsByRow[key] :
      i < j => FirstNamed(assignmentsByRow[key][i]) < FirstNamed(assignmentsByRow[key][j])

\* C26: within each row's list of assignmentsByRow the codes stand in the
\* iteration order of the Assignment Table's keys: codes whose id is an
\* integer-like string first, in ascending numeric order, then the others in
\* the order in which their keys were first inserted; re-applying or
\* removing rows of a code never changes its place.
C26_RowListInKeyOrder ==
  LET Precedes(a, b) ==
        IF IsIntegerLike(a) /\ IsIntegerLike(b) THEN a[2] < b[2]
        ELSE IF IsIntegerLike(a) THEN TRUE
        ELSE IF IsIntegerLike(b) THEN FALSE
        ELSE FirstNamed(a) < FirstNamed(b)
  IN  \A key \in DOMAIN assignmentsByRow :
        \A i \in DOMAIN assignmentsByRow[key], j \in DOMAIN assignmentsByRow[key] :
          i < j => Precedes(assignmentsByRow[key][i], assignmentsByRow[key][j])

\* Row 1 was assigned to code b before it was assigned to code a, whose key
\* is the older one: a stands first.
C26_Witness ==
  \E a \in OrderCodeIdInputs, b \in OrderCodeIdInputs :
    /\ ~IsIntegerLike(a)
    /\ ~IsIntegerLike(b)
    /\ codingEvents = <<[action |-> "apply", codeId |-> a, dataPointIds |-> <<Num(2)>>],
                        [action |-> "apply", codeId |-> b, dataPointIds |-> <<Num(1)>>],
                        [action |-> "apply", codeId |-> a, dataPointIds |-> <<Num(1)>>]>>
    /\ assignmentsByRow["1"] = <<a, b>>

\* C27: applyCode(c, R) and removeCode(c, R) leave the assignment set of
\* every code other than c unchanged, and leave the Code registry (each
\* stored code keeps frequency 0; the live count is in codesWithFrequency),
\* memos, relations, actors and actor links unchanged.
C27_ApplyRemoveFrame ==
  [][lastCall'.op \in {"applyCode", "removeCode"}
       => /\ \A i \in DOMAIN assignments :
               assignments[i].codeId # lastCall'.codeId
                 => RowsOf(assignments', assignments[i].codeId) = assignments[i].rows
          /\ \A i \in DOMAIN assignments' :
               assignments'[i].codeId # lastCall'.codeId
                 => HasEntry(assignments, assignments'[i].codeId)
          /\ codes' = codes
          /\ \A i \in DOMAIN codes' : codes'[i].frequency = 0
          /\ UNCHANGED registries]_vars

\* applyCode on a registered code while another code has rows and a memo
\* exists: the stored frequency is 0, the live one is 1.
C27_Witness ==
  /\ lastCall.op = "applyCode"
  /\ lastCall.rowIds # <<>>
  /\ Len(codes) = 1
  /\ lastCall.codeId = codes[1].id
  /\ RowsOf(assignments, GhostCode) # <<>>
  /\ memos # <<>>
  /\ codes[1].frequency = 0
  /\ codesWithFrequency[1].frequency = 1

\* The number of ancestors of a code whose parent is parentId, or -1 when
\* the parents form a cycle.
RECURSIVE AncestorsFrom(_, _)
AncestorsFrom(parentId, steps) ==
  IF parentId = None THEN steps
  ELSE IF steps > Len(codes) \/ parentId[1] \notin RegisteredIds THEN -1
  ELSE LET parent == CHOOSE i \in DOMAIN codes : codes[i].id = parentId[1]
       IN  AncestorsFrom(codes[parent].parentId, steps + 1)

\* C28: with codes created through the panel the parentId relation is
\* acyclic, and flatCodes terminates and lists every code of the registry
\* exactly once, each child after its parent, with depth equal to its number
\* of ancestors, whatever the level of the code.
C28_FlatCodesListsForest ==
  LET flat == flatCodes(codesWithFrequency)
      items == flat.items
  IN  /\ \A i \in DOMAIN codes : AncestorsFrom(codes[i].parentId, 0) >= 0
      /\ ~flat.overflow
      /\ Len(items) = Len(codes)
      /\ \A i \in DOMAIN codesWithFrequency :
           Cardinality({k \in DOMAIN items : items[k].code = codesWithFrequency[i]})
             = Cardinality({j \in DOMAIN codesWithFrequency :
                              codesWithFrequency[j] = codesWithFrequency[i]})
      /\ \A k \in DOMAIN items :
           /\ items[k].depth = AncestorsFrom(items[k].code.parentId, 0)
           /\ items[k].code.parentId # None
                => \E j \in 1..(k - 1) : items[j].code.id = items[k].code.parentId[1]

\* C29: the user interface never performs an invalid apply. The selection
\* bar applies only a code chosen from the Code registry to a non-empty row
\* list and resets its choice to none afterwards; the panel's Apply and
\* Remove buttons pressed with no rows selected change nothing in the
\* store; and every key of the Assignment Table is the id of an existing code.
C29_UiNeverAppliesInvalid ==
  [][/\ (selectedCode' # selectedCode /\ codingEvents' # codingEvents)
          => /\ selectedCode # None
             /\ selectedCode' = None
             /\ selectedRows # None
             /\ codingEvents'[Len(codingEvents')].action = "apply"
             /\ codingEvents'[Len(codingEvents')].codeId = selectedCode[1]
             /\ codingEvents'[Len(codingEvents')].codeId \in RegisteredIds
             /\ codingEvents'[Len(codingEvents')].dataPointIds = selectedRows[1]
             /\ codingEvents'[Len(codingEvents')].dataPointIds # <<>>
     /\ (OrElse(selectedRows, <<>>) = <<>> /\ codes' = codes)
          => UNCHANGED <<coding, registries, derivedStores>>
     /\ lastCall'.op \in {"applyCode", "removeCode"} => lastCall'.codeId \in RegisteredIds
     /\ \A i \in DOMAIN assignments' : assignments'[i].codeId \in {codes'[k].id : k \in DOMAIN codes'}
    ]_vars

\* The second code has been applied to the two selected rows and the bar's
\* choice is none again.
C29_Witness ==
  /\ Len(codes) = 2
  /\ selectedCode = None
  /\ selectedRows = Some(<<Num(1), Num(2)>>)
  /\ Len(codingEvents) = 3
  /\ codingEvents[3].action = "apply"
  /\ codingEvents[3].codeId = codes[2].id
  /\ codingEvents[3].dataPointIds = <<Num(1), Num(2)>>
  /\ RowsOf(assignments, codes[2].id) = <<Num(1), Num(2)>>
  /\ lastCall.op = "applyCode"

\* C30: at the return of every call of the Mutation API the Audit Log holds
\* as many create events as the Code registry holds codes, and the i-th
\* create event carries the id of the i-th code.
C30_CreateEventsMatchRegistry ==
  LET creates == SelectSeq(codingEvents, LAMBDA e : e.action = "create")
  IN  /\ Len(creates) = Len(codes)
      /\ \A i \in DOMAIN creates : creates[i].codeId = codes[i].id

\* Two codes created with an apply between them.
C30_Witness ==
  /\ Len(codes) = 2
  /\ Len(codingEvents) = 3
  /\ codingEvents[1].action = "create"
  /\ codingEvents[2].action = "apply"
  /\ codingEvents[3].action = "create"
  /\ codingEvents[3].codeId = codes[2].id
  /\ codes[1].id # codes[2].id

\* The keys of assignmentsByRow whose list contains the code id.
RowKeysOf(codeId) ==
  {key \in DOMAIN assignmentsByRow : codeId \in Elems(assignmentsByRow[key])}

\* C31: for every code, with row ids that may be numbers or strings, the
\* frequency reported in codesWithFrequency equals the number of keys of
\* assignmentsByRow whose list contains the code.
C31_FrequencyIsRowKeyCount ==
  \A i \in DOMAIN codesWithFrequency :
    codesWithFrequency[i].frequency = Cardinality(RowKeysOf(codesWithFrequency[i].id))

\* C32: the cooccurrence matrix holds no zero count and no diagonal entry:
\* cooccurrence[a][b] is present if and only if a # b and at least one row
\* is currently assigned to both, and every present value is at least 1 (so
\* removing the last shared row of two codes removes both entries).
C32_CooccurrenceEntriesAreSharedRows ==
  /\ \A a \in CodeIdInputs, b \in CodeIdInputs :
       (HasKey(cooccurrence, a) /\ HasKey(cooccurrence[a], b))
         <=> (a # b /\ AssignedRows(a) \cap AssignedRows(b) # {})
  /\ \A a \in DOMAIN cooccurrence : \A b \in DOMAIN cooccurrence[a] :
       a # b /\ cooccurrence[a][b] >= 1

\* C33: for a non-empty R none of whose rows is assigned to c, applyCode(c, R)
\* followed by removeCode(c, R) restores the previous set of (code, row)
\* pairs, and with it the previous frequencies, row memberships and
\* cooccurrence counts, while the Audit Log has grown by exactly two events:
\* the apply, then the remove.
C33_ApplyRemoveRoundTrip ==
  (roundTrip # None /\ roundTrip[1].removed)
    => LET before == roundTrip[1].before
           c == roundTrip[1].codeId
           R == roundTrip[1].rowIds
       IN  /\ PairsOf(assignments) = PairsOf(before.assignments)
           /\ codesWithFrequency = before.codesWithFrequency
           /\ assignmentsByRow = before.assignmentsByRow
           /\ cooccurrence = before.cooccurrence
           /\ codingEvents = before.codingEvents
                \o <<[action |-> "apply", codeId |-> c, dataPointIds |-> R],
                     [action |-> "remove", codeId |-> c, dataPointIds |-> R]>>

\* A round trip of the row "1" on a code that holds the row 1, which stays.
C33_Witness ==
  /\ roundTrip # None
  /\ roundTrip[1].removed
  /\ roundTrip[1].rowIds = <<Str(1)>>
  /\ RowsOf(roundTrip[1].before.assignments, roundTrip[1].codeId) = <<Num(1)>>
  /\ RowsOf(assignments, roundTrip[1].codeId) = <<Num(1)>>
  /\ Len(codingEvents) = 3

\* The query of the effect's latest run, while the modal is open for a row.
IsCurrentQuery(i) == open /\ rowId # None /\ i = Len(queries)

\* C34: the response of a row query started for an earlier rowId, or before
\* the modal was closed, is never applied: when such a query is fulfilled,
\* rejected or finished, neither rowData nor loading is written.
C34_LateResponseNotApplied ==
  [][\A i \in DOMAIN queries :
       (queries'[i].stage # queries[i].stage /\ ~IsCurrentQuery(i))
         => UNCHANGED <<rowData, loading>>]_vars

\* The query for row 1 has run to its end after rowId became 2: the modal
\* still holds nothing and still waits for the query of row 2.
C34_Witness ==
  /\ Len(queries) = 2
  /\ queries[1].rowId = Num(1)
  /\ queries[1].stage = "settled"
  /\ queries[2].stage = "pending"
  /\ open
  /\ rowId = Num(2)
  /\ rowData = None
  /\ loading

\* C35: whenever the modal shows row contents (open, rowId not null, not
\* loading, rowData not null), rowData is the result of the query issued
\* for the current rowId.
C35_ShownRowIsCurrent ==
  (open /\ rowId # None /\ ~loading /\ rowData # None)
    => rowData = RowOf(rowId, Len(queries))

====
